---- MODULE Spec2Model ----
(***************************************************************************)
(* QoS-aware routing engines: QLearningRouter (q_learning.py) and          *)
(* ACORouter (aco_optimizer.py), with the best-of-N loops of               *)
(* QLearningRouter.run_multiple and NetworkApp.calculate_score (main.py).  *)
(*                                                                         *)
(* Floats are fixed-point integers:                                        *)
(*   scalar cost and its attributes   in 1e-6 units (CostScale),           *)
(*   Q-values and rewards             in 1e-2 units (QScale),              *)
(*   epsilon                          in 1e-6 units (EpsScale),            *)
(*   pheromone                        in 1e-3 units (PhScale).             *)
(* float("inf") is the integer INF, larger than every value that occurs.   *)
(* Python's None is the value None, a list is a sequence.                  *)
(***************************************************************************)
EXTENDS Integers, Sequences, FiniteSets, TLC

\* ------------------------------------------------------------------ bounds
\* episodes (4000 by default), max_steps (100), iterations (30), ant_count (20),
\* runs (5) and the caller's range(5) are run with small values
Episodes == 2
MaxSteps == 3
Iterations == 2
AntCount == 2
Runs == 2
\* calls made one after the other on one router instance (SpecCalls)
MaxCalls == 2

\* --------------------------------------------------------------- constants
INF == 2000000000
CostScale == 1000000
QScale == 100
EpsScale == 1000000
PhScale == 1000

None == << -1 >>

Min(a, b) == IF a < b THEN a ELSE b
Max(a, b) == IF a > b THEN a ELSE b

\* ------------------------------------------------------------------- graph
\* The networks the routers are constructed with (nx.Graph built by add_edge in
\* the order listed). "ring" is the 4-node ring with uniform attributes,
\* "mesh" has a low-bandwidth shortcut 1-2, a chord 1-3 and a dead end 4.
\* An edge is <<u, v, delay, reliability in percent, bandwidth>>.
Graphs == {"ring", "mesh"}

NodeList(g) ==
    IF g = "ring" THEN <<0, 1, 2, 3>> ELSE <<0, 1, 2, 3, 4>>

EdgeList(g) ==
    IF g = "ring"
    THEN << <<0, 1, 1, 90, 10>>, <<1, 2, 1, 90, 10>>,
            <<2, 3, 1, 90, 10>>, <<3, 0, 1, 90, 10>> >>
    ELSE << <<0, 1, 1, 90, 10>>, <<1, 2, 1, 90, 4>>,
            <<0, 3, 2, 90, 10>>, <<3, 2, 2, 50, 10>>,
            <<1, 3, 1, 90, 10>>, <<1, 4, 1, 90, 10>> >>

NodeReliability(g, n) == 100

Nodes(g) == {NodeList(g)[i] : i \in 1..Len(NodeList(g))}

\* graph.edges[u, v]: the attribute record of the undirected edge
EdgeOf(g, u, v) ==
    LET L == EdgeList(g)
        i == CHOOSE i \in 1..Len(L) :
                 \/ (L[i][1] = u /\ L[i][2] = v)
                 \/ (L[i][1] = v /\ L[i][2] = u)
    IN [delay |-> L[i][3], reliability |-> L[i][4], bandwidth |-> L[i][5]]

IsEdge(g, u, v) ==
    \E i \in 1..Len(EdgeList(g)) :
        \/ (EdgeList(g)[i][1] = u /\ EdgeList(g)[i][2] = v)
        \/ (EdgeList(g)[i][1] = v /\ EdgeList(g)[i][2] = u)

\* graph.neighbors(n): adjacency in insertion order
RECURSIVE NeighborsFrom(_, _, _)
NeighborsFrom(g, n, i) ==
    IF i > Len(EdgeList(g)) THEN << >>
    ELSE LET e == EdgeList(g)[i]
             here == IF e[1] = n THEN <<e[2]>>
                     ELSE IF e[2] = n THEN <<e[1]>> ELSE << >>
         IN here \o NeighborsFrom(g, n, i + 1)

Neighbors(g, n) == NeighborsFrom(g, n, 1)

SeqToSet(s) == {s[i] : i \in 1..Len(s)}

\* [x for x in s if x in keep], order kept
RECURSIVE Filter(_, _)
Filter(s, keep) ==
    IF s = << >> THEN << >>
    ELSE (IF Head(s) \in keep THEN <<Head(s)>> ELSE << >>) \o Filter(Tail(s), keep)

\* -------------------------------------------------------------- cost model
\* src/metrics.py: calculate_path_attributes, calculate_weighted_cost.
\* -ln(reliability), in CostScale units, rounded to 1e-4
NegLog(r) ==
    IF r = 100 THEN 0 ELSE IF r = 90 THEN 105400 ELSE 693100

RECURSIVE SumSeq(_)
SumSeq(s) == IF s = << >> THEN 0 ELSE Head(s) + SumSeq(Tail(s))

\* graph.edges[path[i], path[i+1]] for i in range(len(path) - 1)
PathEdges(g, path) ==
    [i \in 1..(Len(path) - 1) |-> EdgeOf(g, path[i], path[i + 1])]

\* 1/bandwidth, rounded down to 1e-4
EdgeResCost(e) == ((CostScale \div 100) \div e.bandwidth) * 100

calculate_path_attributes(g, path) ==
    LET E == PathEdges(g, path)
    IN [total_delay |-> SumSeq([i \in DOMAIN E |-> E[i].delay]),
        reliability_cost |->
            SumSeq([i \in DOMAIN E |-> NegLog(E[i].reliability)])
            + SumSeq([i \in DOMAIN path |-> NegLog(NodeReliability(g, path[i]))]),
        resource_cost |-> SumSeq([i \in DOMAIN E |-> EdgeResCost(E[i])])]

calculate_weighted_cost(attrs, w) ==
    w.w_delay * attrs.total_delay * CostScale
    + w.w_reliability * attrs.reliability_cost
    + w.w_resource * attrs.resource_cost

\* the weight configurations a router is constructed with
WeightConfigs ==
    {[w_delay |-> 1, w_reliability |-> 0, w_resource |-> 0],
     [w_delay |-> 1, w_reliability |-> 1, w_resource |-> 1]}

PathCost(g, w, path) == calculate_weighted_cost(calculate_path_attributes(g, path), w)

\* bottleneck of a path: the minimum edge bandwidth along it (INF without edges)
RECURSIVE MinSeq(_)
MinSeq(s) == IF s = << >> THEN INF ELSE Min(Head(s), MinSeq(Tail(s)))

Bottleneck(g, path) ==
    LET E == PathEdges(g, path) IN MinSeq([i \in DOMAIN E |-> E[i].bandwidth])

\* -------------------------------------------------------- get_path_metrics
\* product of the edge and node reliabilities, in 1e-6 units
RECURSIVE Product(_)
Product(s) == IF s = << >> THEN 1000000 ELSE (Product(Tail(s)) * Head(s)) \div 100

TotalReliability(g, p) ==
    LET E == PathEdges(g, p)
    IN Product([i \in DOMAIN E |-> E[i].reliability]
               \o [i \in DOMAIN p |-> NodeReliability(g, p[i])])

\* faulty variant: only None is taken as no path
NoUsablePathNoneOnly(p) == p = None

\* if not path or len(path) < 2
NoUsablePath(p) == p = None \/ Len(p) < 2

\* faulty variant: the comparison is reversed
BelowDemandReversed(min_bw, demand) == min_bw > demand

\* if min_bw < demand_bw
BelowDemand(min_bw, demand) == min_bw < demand

\* q_learning.py 162-208; the errors are "Geçerli bir yol bulunamadı" (no valid
\* path found) and "Bant genişliği kısıtı sağlanmadı" (bandwidth constraint not met)
QLPathMetrics(g, w, p, demand) ==
    IF NoUsablePath(p)
    THEN [valid |-> FALSE, error |-> "Gecerli bir yol bulunamadi"]
    ELSE LET attrs == calculate_path_attributes(g, p)
             min_bw == Bottleneck(g, p)
         IN IF BelowDemand(min_bw, demand)
            THEN [valid |-> FALSE, error |-> "Bant genisligi kisiti saglanmadi"]
            ELSE [valid |-> TRUE,
                  path |-> p,
                  total_delay |-> attrs.total_delay,
                  total_reliability |-> TotalReliability(g, p),
                  reliability_cost |-> attrs.reliability_cost,
                  resource_cost |-> attrs.resource_cost,
                  total_cost |-> calculate_weighted_cost(attrs, w),
                  bottleneck_bw |-> min_bw,
                  hop_count |-> Len(p) - 1,
                  node_count |-> Len(p)]

\* aco_optimizer.py 101-135; the errors are "Yol bulunamadı" (path not found) and
\* "Bant genişliği yetersiz" (bandwidth insufficient)
ACOPathMetrics(g, w, p, demand) ==
    IF NoUsablePath(p)
    THEN [valid |-> FALSE, error |-> "Yol bulunamadi"]
    ELSE LET min_bw == Bottleneck(g, p)
             attrs == calculate_path_attributes(g, p)
         IN IF BelowDemand(min_bw, demand)
            THEN [valid |-> FALSE, error |-> "Bant genisligi yetersiz"]
            ELSE [valid |-> TRUE,
                  path |-> p,
                  total_delay |-> attrs.total_delay,
                  total_reliability |-> TotalReliability(g, p),
                  resource_cost |-> attrs.resource_cost,
                  total_cost |-> calculate_weighted_cost(attrs, w),
                  bottleneck_bw |-> min_bw,
                  hop_count |-> Len(p) - 1]

get_path_metrics(e, g, w, p, demand) ==
    IF e = "QL" THEN QLPathMetrics(g, w, p, demand) ELSE ACOPathMetrics(g, w, p, demand)

\* Python's None where a metrics record is expected
NoMetrics == [none |-> TRUE]

\* the two kinds of error, whatever the engine's wording
NoPathErrors == {"Gecerli bir yol bulunamadi", "Yol bulunamadi"}
BandwidthErrors == {"Bant genisligi kisiti saglanmadi", "Bant genisligi yetersiz"}

\* metrics and metrics.get("valid", False)
IsValid(m) == "valid" \in DOMAIN m /\ m.valid

\* ------------------------------------------------------------------- state
VARIABLES
    graph, weights, engine,      \* what the router was constructed with
    initial_epsilon,             \* ... the epsilon a QLearningRouter was given
    evaporation,                 \* ... the evaporation an ACORouter was given
    Q, epsilon,                  \* QLearningRouter fields
    pheromones,                  \* ACORouter field
    best_path, best_cost,        \* both routers
    pc, caller, calls,           \* position in the code, who called train, calls made
    src, dst, demand_bw,         \* arguments of the current (last) call
    episode,                     \* QLearningRouter.train: episodes finished
    iteration, ant, all_paths,   \* ACORouter.train: iterations, ants finished
    state, visited, path, steps, min_bw_on_path,   \* one episode / one ant
    run, global_best_path, global_best_cost,       \* run_multiple
    best_metrics, score_best_cost, metrics,        \* calculate_score
    produced,                    \* history: feasible src-dst paths of this train call
    run_results                  \* history: get_best_path() after each constituent run

config == <<graph, weights, engine, initial_epsilon, evaporation>>
router == <<Q, epsilon, pheromones, best_path, best_cost>>
args == <<src, dst, demand_bw>>
walk == <<state, visited, path, steps, min_bw_on_path>>
qloop == <<episode>>
aloop == <<iteration, ant, all_paths>>
multi == <<run, global_best_path, global_best_cost>>
score == <<best_metrics, score_best_cost, metrics>>
vars == <<config, router, pc, caller, calls, args, qloop, aloop, walk, multi, score,
          produced, run_results>>

\* the demands of the demand list: src, dst, bandwidth_needed
Demands(g) ==
    {[src |-> 0, dst |-> 2, bandwidth_needed |-> 5],
     [src |-> 0, dst |-> 2, bandwidth_needed |-> 20],
     [src |-> 0, dst |-> 0, bandwidth_needed |-> 5],
     IF g = "ring" THEN [src |-> 1, dst |-> 3, bandwidth_needed |-> 5]
                   ELSE [src |-> 0, dst |-> 4, bandwidth_needed |-> 5]}

\* ------------------------------------------------------ QLearningRouter
\* hyperparameters (q_learning.py, __init__ defaults); alpha, gamma and
\* epsilon_decay in percent
alpha == 15
gamma == 92
DefaultInitialEpsilon == 1000000
min_epsilon == 10000
epsilon_decay == 99
step_penalty == -200
progress_bonus == 50

\* Q[state][action] = 0.0 for every neighbor
InitQ(g) == [n \in Nodes(g) |-> [a \in SeqToSet(Neighbors(g, n)) |-> 0]]

\* faulty variant: visited nodes are not filtered out
ActionsWithVisited(g, s, vis) == Neighbors(g, s)

\* actions = [a for a in self.Q[state] if a not in visited]
Actions(g, s, vis) == Filter(Neighbors(g, s), Nodes(g) \ vis)

\* max(actions, key=lambda a: Q[state][a]): the first action of maximal value
RECURSIVE ArgMax(_, _)
ArgMax(acts, q) ==
    IF Len(acts) = 1 THEN Head(acts)
    ELSE LET rest == ArgMax(Tail(acts), q)
         IN IF q[Head(acts)] >= q[rest] THEN Head(acts) ELSE rest

\* max(self.Q[next_state].values(), default=0.0)
FutureQ(q) ==
    IF DOMAIN q = {} THEN 0
    ELSE CHOOSE m \in {q[a] : a \in DOMAIN q} : \A a \in DOMAIN q : q[a] <= m

\* cost = max(cost, 1e-6)
ClampCost(cost) == Max(cost, 1)

\* 2000.0 / cost
GoalReward(cost) == (2000 * CostScale) \div (cost \div QScale)

\* faulty variant: the visited nodes in sorted order are kept instead of the path
RECURSIVE SortedNodes(_)
SortedNodes(S) ==
    IF S = {} THEN << >>
    ELSE LET m == CHOOSE x \in S : \A y \in S : x <= y
         IN <<m>> \o SortedNodes(S \ {m})

BestCopySorted(p) == SortedNodes(SeqToSet(p))

\* self.best_path = path.copy() (q_learning.py 130), path[:] (aco_optimizer.py 87)
BestCopy(p) == p

\* faulty variant: the comparison is reversed
ImprovesReversed(cost, best) == cost > best

\* faulty variant: a path of equal cost replaces the best one (<= for <)
ImprovesOrEqual(cost, best) == cost <= best

\* is the finished path kept as a better one: cost < self.best_cost
Improves(cost, best) == cost < best

\* faulty variant: the bandwidth constraint is not checked at dst
MeetsDemandUnchecked(min_bw, bw) == TRUE

\* is the path allowed as a result: min_bw_on_path >= demand_bw
MeetsDemand(min_bw, bw) == min_bw >= bw

\* Q[state][action] += alpha * (reward + gamma * future_q - Q[state][action])
QUpdate(old, reward, future_q) ==
    old + (alpha * (reward + (gamma * future_q) \div 100 - old)) \div 100

\* the locals of train / _construct_path are gone once the call has returned
NoLocals ==
    /\ state' = -1 /\ visited' = {} /\ path' = << >> /\ steps' = 0
    /\ min_bw_on_path' = INF

\* where train returns to
ReturnPc(c) ==
    IF c = "train" THEN "idle"
    ELSE IF c = "run_multiple" THEN "rm_after" ELSE "score_after"

\* q_learning.py 78-84: router.train(src, dst, demand_bw) called on the router
QTrain(s, d, bw) ==
    /\ pc = "idle" /\ engine = "QL"
    /\ calls' = calls + 1
    /\ caller' = "train"
    /\ src' = s /\ dst' = d /\ demand_bw' = bw
    /\ episode' = 0
    /\ produced' = {}
    /\ run_results' = << >>
    /\ metrics' = NoMetrics
    /\ pc' = "q_for"
    /\ UNCHANGED <<config, router, aloop, walk, multi, best_metrics, score_best_cost>>

\* q_learning.py 84-89: the next episode starts at src
QEpisodeStart ==
    /\ pc = "q_for" /\ episode < Episodes
    /\ state' = src
    /\ visited' = {src}
    /\ path' = <<src>>
    /\ steps' = 0
    /\ min_bw_on_path' = INF
    /\ pc' = "q_while"
    /\ UNCHANGED <<config, router, caller, calls, args, qloop, aloop, multi, score,
                   produced, run_results>>

\* random.random() < epsilon picks any action, otherwise the greedy one
QChoices(acts, q, eps) ==
    (IF eps > 0 THEN SeqToSet(acts) ELSE {})
    \cup (IF eps < EpsScale THEN {ArgMax(acts, q)} ELSE {})

\* q_learning.py 91-140: one step of the episode
QStep ==
    LET actions == Actions(graph, state, visited) IN
    /\ pc = "q_while"
    /\ state # dst /\ steps < MaxSteps /\ actions # << >>
    /\ \E action \in QChoices(actions, Q[state], epsilon) :
          LET bw == EdgeOf(graph, state, action).bandwidth
              min_bw == Min(min_bw_on_path, bw)
              new_path == Append(path, action)
              cost == ClampCost(PathCost(graph, weights, new_path))
              feasible == MeetsDemand(min_bw, demand_bw)
              reward == IF action # dst THEN step_penalty + progress_bonus
                        ELSE IF feasible THEN GoalReward(cost) ELSE -1 * QScale
              better == action = dst /\ feasible /\ Improves(cost, best_cost)
          IN /\ steps' = steps + 1
             /\ min_bw_on_path' = min_bw
             /\ path' = new_path
             /\ visited' = visited \cup {action}
             /\ best_cost' = IF better THEN cost ELSE best_cost
             /\ best_path' = IF better THEN BestCopy(new_path) ELSE best_path
             /\ Q' = [Q EXCEPT ![state][action] = QUpdate(@, reward, FutureQ(Q[action]))]
             /\ state' = action
             /\ produced' = IF action = dst /\ feasible
                            THEN produced \cup {new_path} ELSE produced
    /\ UNCHANGED <<config, epsilon, pheromones, pc, caller, calls, args, qloop, aloop,
                   multi, score, run_results>>

\* the while loop is left: dst reached, step cap, or no unvisited neighbor
EpisodeOver ==
    state = dst \/ steps >= MaxSteps \/ Actions(graph, state, visited) = << >>

\* if self.epsilon > self.min_epsilon: self.epsilon *= self.epsilon_decay
DecayEpsilon(eps) ==
    IF eps > min_epsilon THEN (eps * epsilon_decay) \div 100 ELSE eps

\* q_learning.py 91, 96-97, 142-144: the episode ends, epsilon decays
QEpisodeEnd ==
    /\ pc = "q_while" /\ EpisodeOver
    /\ steps' = IF state # dst /\ steps < MaxSteps THEN steps + 1 ELSE steps
    /\ epsilon' = DecayEpsilon(epsilon)
    /\ episode' = episode + 1
    /\ pc' = "q_for"
    /\ UNCHANGED <<config, Q, pheromones, best_path, best_cost, caller, calls, args,
                   aloop, state, visited, path, min_bw_on_path, multi, score,
                   produced, run_results>>

\* q_learning.py 84: all episodes done, train returns
QTrainReturn ==
    /\ pc = "q_for" /\ episode = Episodes
    /\ NoLocals
    /\ episode' = 0
    /\ pc' = ReturnPc(caller)
    /\ UNCHANGED <<config, router, caller, calls, args, aloop, multi, score,
                   produced, run_results>>

\* ------------------------------------------------------------ ACORouter
\* hyperparameters (aco_optimizer.py, __init__ defaults): alpha = 1.0 and
\* beta = 2.0 are the exponents in Attractiveness, evaporation is in percent
DefaultEvaporation == 50
q == 100
\* the floor of a pheromone value, 0.01
PheromoneFloor == 10

\* faulty variant: only the direction in which graph.edges() lists the edge
InitPheromonesOneWay(g) ==
    [e \in {<<EdgeList(g)[i][1], EdgeList(g)[i][2]>> : i \in 1..Len(EdgeList(g))}
        |-> 1 * PhScale]

\* _initialize_pheromones: 1.0 on both directions of every edge
InitPheromones(g) ==
    [e \in {<<u, v>> \in Nodes(g) \X Nodes(g) : IsEdge(g, u, v)} |-> 1 * PhScale]

\* aco_optimizer.py 62-70: router.train(src, dst, demand_bw) called on the router
ACOTrain(s, d, bw) ==
    /\ pc = "idle" /\ engine = "ACO"
    /\ calls' = calls + 1
    /\ caller' = "train"
    /\ src' = s /\ dst' = d /\ demand_bw' = bw
    /\ best_path' = None
    /\ best_cost' = INF
    /\ iteration' = 0 /\ ant' = 0 /\ all_paths' = << >>
    /\ produced' = {}
    /\ run_results' = << >>
    /\ metrics' = NoMetrics
    /\ pc' = "a_iter"
    /\ UNCHANGED <<config, Q, epsilon, pheromones, qloop, walk, multi, best_metrics,
                   score_best_cost>>

\* aco_optimizer.py 72-73: the next iteration starts with no paths
ACOIterStart ==
    /\ pc = "a_iter" /\ iteration < Iterations
    /\ all_paths' = << >>
    /\ ant' = 0
    /\ pc' = "a_ant"
    /\ UNCHANGED <<config, router, caller, calls, args, qloop, iteration, walk, multi,
                   score, produced, run_results>>

\* aco_optimizer.py 76-77, 144-146: the next ant starts at src
AntStart ==
    /\ pc = "a_ant" /\ ant < AntCount
    /\ state' = src
    /\ path' = <<src>>
    /\ visited' = {src}
    /\ steps' = 0
    /\ pc' = "a_walk"
    /\ UNCHANGED <<config, router, caller, calls, args, qloop, aloop, min_bw_on_path,
                   multi, score, produced, run_results>>

\* the step cap of one ant: range(len(self.nodes) * 2)
StepCap(g) == Len(NodeList(g)) * 2

\* faulty variant: the comparison is reversed
WideEnoughReversed(bw, demand) == bw <= demand

\* is a neighbor's edge wide enough: bw >= demand_bw
WideEnough(bw, demand) == bw >= demand

\* valid_neighbors: not visited and of sufficient bandwidth
RECURSIVE ValidFrom(_, _, _, _, _)
ValidFrom(g, cur, nbrs, vis, demand) ==
    IF nbrs = << >> THEN << >>
    ELSE (IF Head(nbrs) \notin vis
             /\ WideEnough(EdgeOf(g, cur, Head(nbrs)).bandwidth, demand)
          THEN <<Head(nbrs)>> ELSE << >>)
         \o ValidFrom(g, cur, Tail(nbrs), vis, demand)

\* faulty variant: visited nodes are not left out
ValidNeighborsRevisit(g, cur, vis, demand) ==
    ValidFrom(g, cur, Neighbors(g, cur), {}, demand)

ValidNeighbors(g, cur, vis, demand) == ValidFrom(g, cur, Neighbors(g, cur), vis, demand)

\* self.pheromones.get((current, n), 1.0)
Tau(ph, u, v) == IF <<u, v>> \in DOMAIN ph THEN ph[<<u, v>>] ELSE 1 * PhScale

\* prob = tau ** alpha * eta ** beta with eta = 1.0 / (edge_delay + 0.1)
Attractiveness(tau, delay) == (tau * 100) \div ((10 * delay + 1) * (10 * delay + 1))

\* random.choice when the denominator is 0, else random.choices by weight:
\* a neighbor of weight 0 is never drawn
AntChoices(g, ph, cur, valid) ==
    LET prob(n) == Attractiveness(Tau(ph, cur, n), EdgeOf(g, cur, n).delay)
        denominator == SumSeq([i \in DOMAIN valid |-> prob(valid[i])])
    IN IF denominator = 0 THEN SeqToSet(valid)
       ELSE {n \in SeqToSet(valid) : prob(n) > 0}

\* aco_optimizer.py 149-193: one step of the ant
AntStep ==
    LET valid_neighbors == ValidNeighbors(graph, state, visited, demand_bw) IN
    /\ pc = "a_walk"
    /\ steps < StepCap(graph) /\ state # dst /\ valid_neighbors # << >>
    /\ \E next_node \in AntChoices(graph, pheromones, state, valid_neighbors) :
          /\ state' = next_node
          /\ path' = Append(path, next_node)
          /\ visited' = visited \cup {next_node}
    /\ steps' = steps + 1
    /\ UNCHANGED <<config, router, pc, caller, calls, args, qloop, aloop,
                   min_bw_on_path, multi, score, produced, run_results>>

\* the ant has reached dst: return path (150-151)
AntArrived == steps < StepCap(graph) /\ state = dst

\* the ant returns None: dead end (163-164) or step cap exhausted (195)
AntFailed ==
    \/ steps >= StepCap(graph)
    \/ (state # dst /\ ValidNeighbors(graph, state, visited, demand_bw) = << >>)

\* aco_optimizer.py 79-87: a returned path is recorded and compared with the best
AntEnd ==
    /\ pc = "a_walk"
    /\ IF AntArrived
       THEN LET cost == PathCost(graph, weights, path)
                better == Improves(cost, best_cost)
            IN /\ all_paths' = Append(all_paths, <<path, cost>>)
               /\ best_cost' = IF better THEN cost ELSE best_cost
               /\ best_path' = IF better THEN BestCopy(path) ELSE best_path
               /\ produced' = produced \cup {path}
       ELSE /\ AntFailed
            /\ UNCHANGED <<all_paths, best_cost, best_path, produced>>
    /\ ant' = ant + 1
    /\ state' = -1 /\ visited' = {} /\ path' = << >> /\ steps' = 0
    /\ pc' = "a_ant"
    /\ UNCHANGED <<config, Q, epsilon, pheromones, caller, calls, args, qloop,
                   iteration, min_bw_on_path, multi, score, run_results>>

\* deposit = self.q / (cost + 0.0001)
Deposit(cost) ==
    (q * PhScale * (CostScale \div 100)) \div ((cost + CostScale \div 10000) \div 100)

\* faulty variant: no floor
EvaporateNoFloor(v) == (v * (100 - evaporation)) \div 100

\* evaporation of one value, with the floor
Evaporate(v) == Max((v * (100 - evaporation)) \div 100, PheromoneFloor)

\* faulty variant: the deposit is added in the direction of travel only
ArcCountForward(p, e) ==
    Cardinality({i \in 1..(Len(p) - 1) : e = <<p[i], p[i + 1]>>})

\* how often an arc lies on a path (a simple path: 0 or 1)
ArcCount(p, e) ==
    Cardinality({i \in 1..(Len(p) - 1) : e = <<p[i], p[i + 1]>> \/ e = <<p[i + 1], p[i]>>})

\* _update_pheromones: evaporation on every edge, then the deposits of all paths
RECURSIVE DepositAll(_, _)
DepositAll(ph, paths) ==
    IF paths = << >> THEN ph
    ELSE LET p == Head(paths)[1]
             d == Deposit(Head(paths)[2])
         IN DepositAll([e \in DOMAIN ph |-> ph[e] + ArcCount(p, e) * d], Tail(paths))

\* faulty variant: the deposits are made before the evaporation
UpdatePheromonesDepositFirst(ph, paths) ==
    [e \in DOMAIN ph |-> Evaporate(DepositAll(ph, paths)[e])]

UpdatePheromones(ph, paths) ==
    DepositAll([e \in DOMAIN ph |-> Evaporate(ph[e])], paths)

\* aco_optimizer.py 90, 207-230: all ants are done, the pheromones are updated
ACOIterEnd ==
    /\ pc = "a_ant" /\ ant = AntCount
    /\ pheromones' = UpdatePheromones(pheromones, all_paths)
    /\ iteration' = iteration + 1
    /\ pc' = "a_iter"
    /\ UNCHANGED <<config, Q, epsilon, best_path, best_cost, caller, calls, args,
                   qloop, ant, all_paths, walk, multi, score, produced, run_results>>

\* aco_optimizer.py 72: all iterations done, train returns
ACOTrainReturn ==
    /\ pc = "a_iter" /\ iteration = Iterations
    /\ iteration' = 0 /\ ant' = 0 /\ all_paths' = << >>
    /\ pc' = ReturnPc(caller)
    /\ UNCHANGED <<config, router, caller, calls, args, qloop, walk, multi, score,
                   produced, run_results>>

\* ------------------------------------------- QLearningRouter.run_multiple
\* q_learning.py 212-230: run_multiple(src, dst, demand_bw, runs) is called
RunMultiple(s, d, bw) ==
    /\ pc = "idle" /\ engine = "QL"
    /\ calls' = calls + 1
    /\ caller' = "run_multiple"
    /\ src' = s /\ dst' = d /\ demand_bw' = bw
    /\ global_best_cost' = INF
    /\ global_best_path' = None
    /\ run' = 0
    /\ run_results' = << >>
    /\ metrics' = NoMetrics
    /\ pc' = "rm_for"
    /\ UNCHANGED <<config, router, qloop, aloop, walk, best_metrics, score_best_cost,
                   produced>>

\* self.epsilon = 1.0
RestartEpsilon == 1000000

\* q_learning.py 232-243: the learning state is reset and train is called
RunMultipleRunStart ==
    /\ pc = "rm_for" /\ run < Runs
    /\ Q' = InitQ(graph)
    /\ best_path' = None
    /\ best_cost' = INF
    /\ epsilon' = RestartEpsilon
    /\ episode' = 0
    /\ produced' = {}
    /\ pc' = "q_for"
    /\ UNCHANGED <<config, pheromones, caller, calls, args, aloop, walk, multi, score,
                   run_results>>

\* q_learning.py 245-252: the run's best path is compared with the global best
RunMultipleRunEnd ==
    /\ pc = "rm_after"
    /\ LET cost == PathCost(graph, weights, best_path)
           better == best_path # None /\ Improves(cost, global_best_cost)
       IN /\ global_best_cost' = IF better THEN cost ELSE global_best_cost
          /\ global_best_path' = IF better THEN BestCopy(best_path) ELSE global_best_path
    /\ run_results' = Append(run_results, best_path)
    /\ run' = run + 1
    /\ pc' = "rm_for"
    /\ UNCHANGED <<config, router, caller, calls, args, qloop, aloop, walk, score,
                   produced>>

\* q_learning.py 254-258: the global best becomes the router's best and is returned
RunMultipleReturn ==
    /\ pc = "rm_for" /\ run = Runs
    /\ best_path' = global_best_path
    /\ best_cost' = global_best_cost
    /\ pc' = "idle"
    /\ UNCHANGED <<config, Q, epsilon, pheromones, caller, calls, args, qloop, aloop,
                   walk, multi, score, produced, run_results>>

\* ------------------------------------------- NetworkApp.calculate_score
\* main.py 211-218, 232-235: the best-of-N loop for one demand begins; every run
\* constructs its own router
Score(s, d, bw) ==
    /\ pc = "idle"
    /\ calls' = calls + 1
    /\ caller' = "score"
    /\ src' = s /\ dst' = d /\ demand_bw' = bw
    /\ best_metrics' = NoMetrics
    /\ score_best_cost' = INF
    /\ run' = 0
    /\ run_results' = << >>
    /\ pc' = "score_for"
    /\ UNCHANGED <<config, router, qloop, aloop, walk, global_best_path,
                   global_best_cost, metrics, produced>>

\* main.py 220-222, 237-239: a router is constructed and train is called
ScoreRunStart ==
    /\ pc = "score_for" /\ run < Runs
    /\ Q' = IF engine = "QL" THEN InitQ(graph) ELSE << >>
    /\ epsilon' = DefaultInitialEpsilon
    /\ pheromones' = IF engine = "ACO" THEN InitPheromones(graph) ELSE << >>
    /\ best_path' = None
    /\ best_cost' = INF
    /\ episode' = 0
    /\ iteration' = 0 /\ ant' = 0 /\ all_paths' = << >>
    /\ produced' = {}
    /\ pc' = IF engine = "QL" THEN "q_for" ELSE "a_iter"
    /\ UNCHANGED <<config, caller, calls, args, walk, multi, score, run_results>>

\* main.py 241: the ACO branch asks for metrics only if path and len(path) > 1
ScoreAsksMetrics(e, p) == e = "QL" \/ (p # None /\ Len(p) > 1)

\* main.py 223-229, 240-247: the run's path and metrics; a valid, cheaper one is kept
ScoreRunEnd ==
    /\ pc = "score_after"
    /\ LET p == best_path
           m == get_path_metrics(engine, graph, weights, p, demand_bw)
           asked == ScoreAsksMetrics(engine, p)
           better == asked /\ IsValid(m) /\ Improves(m.total_cost, score_best_cost)
       IN /\ metrics' = IF asked THEN m ELSE metrics
          /\ score_best_cost' = IF better THEN m.total_cost ELSE score_best_cost
          /\ best_metrics' = IF better THEN m ELSE best_metrics
    /\ run_results' = Append(run_results, best_path)
    /\ run' = run + 1
    /\ pc' = "score_for"
    /\ UNCHANGED <<config, router, caller, calls, args, qloop, aloop, walk,
                   global_best_path, global_best_cost, produced>>

\* main.py 230, 249: metrics = best_metrics
ScoreDone ==
    /\ pc = "score_for" /\ run = Runs
    /\ metrics' = best_metrics
    /\ pc' = "idle"
    /\ UNCHANGED <<config, router, caller, calls, args, qloop, aloop, walk, multi,
                   best_metrics, score_best_cost, produced, run_results>>

\* the caller of train asks for the result (main.py 223-224, experimentsql.py 85):
\* path = router.get_best_path(src, dst); router.get_path_metrics(path, demand_bw)
Query ==
    /\ pc = "idle" /\ caller = "train" /\ metrics = NoMetrics
    /\ metrics' = get_path_metrics(engine, graph, weights, best_path, demand_bw)
    /\ UNCHANGED <<config, router, pc, caller, calls, args, qloop, aloop, walk, multi,
                   best_metrics, score_best_cost, produced, run_results>>

\* ------------------------------------------------------------------- Init
\* the router as its constructor leaves it, given initial_epsilon = eps0 and
\* evaporation = evap
Constructed(eps0, evap) ==
    /\ graph \in Graphs
    /\ weights \in WeightConfigs
    /\ engine \in {"QL", "ACO"}
    /\ initial_epsilon = eps0
    /\ evaporation = evap
    /\ Q = IF engine = "QL" THEN InitQ(graph) ELSE << >>
    /\ epsilon = initial_epsilon
    /\ pheromones = IF engine = "ACO" THEN InitPheromones(graph) ELSE << >>
    /\ best_path = None
    /\ best_cost = INF
    /\ pc = "idle" /\ caller = "none" /\ calls = 0
    /\ src = -1 /\ dst = -1 /\ demand_bw = 0
    /\ episode = 0
    /\ iteration = 0 /\ ant = 0 /\ all_paths = << >>
    /\ state = -1 /\ visited = {} /\ path = << >> /\ steps = 0
    /\ min_bw_on_path = INF
    /\ run = 0 /\ global_best_path = None /\ global_best_cost = INF
    /\ best_metrics = NoMetrics /\ score_best_cost = INF /\ metrics = NoMetrics
    /\ produced = {}
    /\ run_results = << >>

\* a router constructed with the default hyperparameters
Init == Constructed(DefaultInitialEpsilon, DefaultEvaporation)

\* a call made on the router: train, run_multiple, or the application's loop
Call ==
    \E d \in Demands(graph) :
        \/ QTrain(d.src, d.dst, d.bandwidth_needed)
        \/ ACOTrain(d.src, d.dst, d.bandwidth_needed)
        \/ RunMultiple(d.src, d.dst, d.bandwidth_needed)
        \/ Score(d.src, d.dst, d.bandwidth_needed)

\* a step of the call in progress, or the caller's query after train
Step ==
    \/ QEpisodeStart
    \/ QStep
    \/ QEpisodeEnd
    \/ QTrainReturn
    \/ ACOIterStart
    \/ AntStart
    \/ AntStep
    \/ AntEnd
    \/ ACOIterEnd
    \/ ACOTrainReturn
    \/ RunMultipleRunStart
    \/ RunMultipleRunEnd
    \/ RunMultipleReturn
    \/ ScoreRunStart
    \/ ScoreRunEnd
    \/ ScoreDone
    \/ Query

\* one call on a freshly constructed router
Next ==
    \/ (calls = 0 /\ Call)
    \/ Step

Spec == Init /\ [][Next]_vars

\* up to MaxCalls calls, one after the other, on the same router
NextCalls ==
    \/ (calls < MaxCalls /\ Call)
    \/ Step

SpecCalls == Init /\ [][NextCalls]_vars

\* ------------------------------------------------- get_path_metrics alone
\* the lists get_path_metrics is called with: None, the empty list and every
\* walk of the graph of at most MaxWalk nodes
MaxWalk == 3
MetricBandwidths == {0, 4, 5, 10, 20}

RECURSIVE WalksOf(_, _)
WalksOf(g, n) ==
    IF n = 1 THEN {<<v>> : v \in Nodes(g)}
    ELSE LET W == WalksOf(g, n - 1)
         IN W \cup {Append(w, v) : w \in {x \in W : Len(x) = n - 1}, v \in Nodes(g)}

Walks(g) ==
    {w \in WalksOf(g, MaxWalk) : \A i \in 1..(Len(w) - 1) : IsEdge(g, w[i], w[i + 1])}

\* router.get_path_metrics(p, bw) on a constructed router; the call reads the
\* router and changes none of its fields, so one call per behaviour shows them all
MetricsCall(p, bw) ==
    /\ metrics = NoMetrics
    /\ metrics' = get_path_metrics(engine, graph, weights, p, bw)
    /\ path' = p
    /\ demand_bw' = bw
    /\ UNCHANGED <<config, router, pc, caller, calls, src, dst, qloop, aloop, state,
                   visited, steps, min_bw_on_path, multi, best_metrics,
                   score_best_cost, produced, run_results>>

NextMetrics ==
    \E p \in Walks(graph) \cup {None, << >>}, bw \in MetricBandwidths : MetricsCall(p, bw)

SpecMetrics == Init /\ [][NextMetrics]_vars

\* ------------------------------------- QLearningRouter on its own router
\* the values of initial_epsilon a QLearningRouter is constructed with: the
\* default 1.0, 0.5, and 0.0101, just above min_epsilon
InitialEpsilons == {1000000, 500000, 10100}

InitQL ==
    \E eps0 \in InitialEpsilons :
        Constructed(eps0, DefaultEvaporation) /\ engine = "QL"

\* train or run_multiple is called once on the freshly constructed router
NextQL ==
    \/ (calls = 0 /\ \E d \in Demands(graph) :
                         \/ QTrain(d.src, d.dst, d.bandwidth_needed)
                         \/ RunMultiple(d.src, d.dst, d.bandwidth_needed))
    \/ RunMultipleRunStart
    \/ QEpisodeStart
    \/ QStep
    \/ QEpisodeEnd
    \/ QTrainReturn
    \/ RunMultipleRunEnd
    \/ RunMultipleReturn
    \/ Query

SpecQL == InitQL /\ [][NextQL]_vars

\* ------------------------------------------- ACORouter.train on its own router
\* the values of evaporation an ACORouter is constructed with, in percent: none,
\* the default 0.5, and all of it
Evaporations == {0, 50, 100}

InitACO ==
    \E evap \in Evaporations :
        Constructed(DefaultInitialEpsilon, evap) /\ engine = "ACO"

\* the steps of a train call in progress
ACOStep ==
    \/ ACOIterStart
    \/ AntStart
    \/ AntStep
    \/ AntEnd
    \/ ACOIterEnd
    \/ ACOTrainReturn

\* train is called once on the freshly constructed router
NextACO ==
    \/ (calls = 0 /\ \E d \in Demands(graph) :
                         ACOTrain(d.src, d.dst, d.bandwidth_needed))
    \/ ACOStep

SpecACO == InitACO /\ [][NextACO]_vars

\* train is called up to MaxCalls times, one call after the other
NextACOCalls ==
    \/ (calls < MaxCalls /\ \E d \in Demands(graph) :
                                ACOTrain(d.src, d.dst, d.bandwidth_needed))
    \/ ACOStep

SpecACOCalls == InitACO /\ [][NextACOCalls]_vars

\* ================================================================ claims
\* no node occurs twice
Simple(p) == \A i, j \in 1..Len(p) : i # j => p[i] # p[j]

\* every edge of the path has bandwidth >= bw
Feasible(g, p, bw) ==
    \A i \in 1..(Len(p) - 1) : EdgeOf(g, p[i], p[i + 1]).bandwidth >= bw

\* every consecutive pair is an edge
Adjacent(g, p) == \A i \in 1..(Len(p) - 1) : IsEdge(g, p[i], p[i + 1])

\* train has returned to a caller that called it directly
Trained == pc = "idle" /\ caller = "train"
\* ... and it was the only call on a freshly constructed router
TrainedOnce == Trained /\ calls = 1
\* ... and the caller has asked for the metrics of get_best_path()
Queried == Trained /\ metrics # NoMetrics
\* a training run is in progress
InTrain == pc \in {"q_for", "q_while", "a_iter", "a_ant", "a_walk"}
\* a training run that started from a fresh learning state has just ended
FreshRunEnded == TrainedOnce \/ pc \in {"rm_after", "score_after"}

\* the router in hand was constructed for the call in progress and has been
\* trained at most once: the first direct train call, or a calculate_score run
FreshRouterTrain ==
    \/ (caller = "train" /\ calls = 1)
    \/ (caller = "score" /\ (run > 0 \/ pc # "score_for"))

\* C1: on a fresh router, during and after one train call, the best path is None
\* or a path all of whose edges have bandwidth >= demand_bw
C1_BestPathFeasible ==
    FreshRouterTrain
        => (best_path = None \/ Feasible(graph, best_path, demand_bw))

\* a run in which a cheaper but too narrow path 0-1-2 was walked and not kept
C1_Witness ==
    /\ TrainedOnce /\ engine = "QL" /\ graph = "mesh"
    /\ src = 0 /\ dst = 2 /\ demand_bw = 5
    /\ Q[1][2] # 0
    /\ best_path = <<0, 3, 2>>
    /\ PathCost(graph, weights, <<0, 1, 2>>) < best_cost

\* C2: after a train call has returned, get_best_path() is what that call learned:
\* a path from its src to its dst that meets its demand_bw if it produced one,
\* None otherwise
C2_OnlyLastTrain ==
    Trained =>
        IF produced = {} THEN best_path = None
        ELSE /\ best_path # None
             /\ best_path[1] = src /\ best_path[Len(best_path)] = dst
             /\ Feasible(graph, best_path, demand_bw)

\* the minimum of the edge bandwidths of a path with at least one edge
MinEdgeBandwidth(g, p) ==
    LET S == {EdgeOf(g, p[i], p[i + 1]).bandwidth : i \in 1..(Len(p) - 1)}
    IN CHOOSE m \in S : \A x \in S : m <= x

\* C3: a metrics record with valid = true reports as bottleneck_bw the minimum
\* edge bandwidth of the path it was asked about, and that is >= demand_bw
C3_ValidMeansFeasible ==
    IsValid(metrics) =>
        /\ metrics.bottleneck_bw = MinEdgeBandwidth(graph, path)
        /\ metrics.bottleneck_bw >= demand_bw

\* a valid record for a path whose narrowest edge is exactly the demand
C3_Witness ==
    /\ IsValid(metrics) /\ Len(path) = 3
    /\ metrics.bottleneck_bw = 4 /\ demand_bw = 4
    /\ \E i \in 1..2 : EdgeOf(graph, path[i], path[i + 1]).bandwidth = 10

\* C4: no path the router holds or returns repeats a node: the path under
\* construction, best_path, and the path kept by run_multiple
C4_PathsSimple ==
    /\ Simple(path)
    /\ best_path # None => Simple(best_path)
    /\ global_best_path # None => Simple(global_best_path)
    /\ \A i \in 1..Len(run_results) : run_results[i] # None => Simple(run_results[i])

\* a returned path that passed a node with an already visited neighbor other
\* than its predecessor
C4_Witness ==
    /\ pc = "idle" /\ calls > 0 /\ best_path # None
    /\ \E i \in 3..Len(best_path) :
          \E j \in 1..(i - 2) : IsEdge(graph, best_path[i], best_path[j])

\* C5: every consecutive pair of nodes of the best path is an edge of the graph
C5_BestPathAdjacent ==
    /\ best_path # None => Adjacent(graph, best_path)
    /\ global_best_path # None => Adjacent(graph, global_best_path)

\* a best path of three nodes whose end points are not adjacent
C5_Witness ==
    /\ pc = "idle" /\ calls > 0 /\ best_path # None /\ Len(best_path) = 3
    /\ ~IsEdge(graph, best_path[1], best_path[3])

\* C6: for src = dst, train and then get_best_path give [src], and its metrics
\* are valid with total_cost 0, hop_count 0 and an infinite bottleneck_bw
C6_DegenerateDemand ==
    (Queried /\ src = dst) =>
        /\ best_path = <<src>>
        /\ IsValid(metrics)
        /\ metrics.total_cost = 0
        /\ metrics.hop_count = 0
        /\ metrics.bottleneck_bw = INF

\* C7: inside a train call, best_cost never increases, and best_path changes
\* only in a step in which best_cost strictly decreases
C7_MonotoneBest ==
    [][InTrain => /\ best_cost' <= best_cost
                  /\ (best_path' # best_path => best_cost' < best_cost)]_vars

\* a second path of the same cost as the best one was produced and not taken
C7_Witness ==
    /\ InTrain /\ best_path # None
    /\ \E p \in produced : p # best_path /\ PathCost(graph, weights, p) = best_cost

\* the path a best-of-N loop has ended with
LoopResult ==
    IF caller = "run_multiple" THEN global_best_path
    ELSE IF "path" \in DOMAIN best_metrics THEN best_metrics.path ELSE None

\* C8: the path a best-of-N loop (run_multiple or calculate_score) ends with
\* costs no more than the best path of any of its runs, and is None only if
\* every run ended without a path
C8_BestOfNDominates ==
    (pc = "idle" /\ caller \in {"run_multiple", "score"}) =>
        \A i \in 1..Len(run_results) :
            run_results[i] # None =>
                /\ LoopResult # None
                /\ PathCost(graph, weights, LoopResult)
                       <= PathCost(graph, weights, run_results[i])

\* the ring scenario: delay-only weights, demand 0 -> 2 with bandwidth 5
RingScenario ==
    /\ graph = "ring"
    /\ weights = [w_delay |-> 1, w_reliability |-> 0, w_resource |-> 0]
    /\ src = 0 /\ dst = 2

\* C9: in the ring scenario every training run from a fresh learning state ends
\* with [0,1,2] or [0,3,2], whose metrics are valid with total_delay 2 and
\* bottleneck_bw 10
C9_RingTwoHops ==
    (RingScenario /\ demand_bw = 5 /\ FreshRunEnded) =>
        /\ best_path \in {<<0, 1, 2>>, <<0, 3, 2>>}
        /\ LET m == get_path_metrics(engine, graph, weights, best_path, demand_bw)
           IN m.valid /\ m.total_delay = 2 /\ m.bottleneck_bw = 10

\* both two-hop paths were produced in one run
C9_Witness ==
    /\ RingScenario /\ demand_bw = 5 /\ FreshRunEnded
    /\ produced = {<<0, 1, 2>>, <<0, 3, 2>>}

\* C10: in the ring scenario with demand 20, train and the metrics of
\* get_best_path give no path and the bandwidth error
C10_RingInfeasible ==
    (RingScenario /\ demand_bw = 20 /\ Queried /\ calls = 1) =>
        /\ best_path = None
        /\ ~IsValid(metrics)
        /\ metrics.error \in BandwidthErrors

\* the first _update_pheromones of a freshly constructed ACORouter has just run,
\* with one successful ant in the iteration
FirstUpdateOneAnt ==
    /\ engine = "ACO" /\ FreshRouterTrain
    /\ pc = "a_iter" /\ iteration = 1 /\ Len(all_paths) = 1

\* 1.0 * 0.5: the initial pheromone after evaporation
EvaporatedInitial == (1 * PhScale * (100 - evaporation)) \div 100

\* q / c, with c in 1e-4 units
QOverCost(c) == (q * PhScale * 10000) \div (c \div 100)

\* q / (c + 0.0001), with c in 1e-4 units
QOverCostPlusGuard(c) == (q * PhScale * 10000) \div (c \div 100 + 1)

\* an arc of the path, in either direction
OnPath(p, e) ==
    \E i \in 1..(Len(p) - 1) : e = <<p[i], p[i + 1]>> \/ e = <<p[i + 1], p[i]>>

\* C11 as stated: after the first update with one successful ant of cost c, the
\* pheromone is 1.0 * 0.5 + q / c on both directions of every edge of the ant's
\* path and max(1.0 * 0.5, floor) on every other edge
C11_DepositQOverCost ==
    FirstUpdateOneAnt =>
        \A e \in DOMAIN pheromones :
            pheromones[e] =
                IF OnPath(all_paths[1][1], e)
                THEN EvaporatedInitial + QOverCost(all_paths[1][2])
                ELSE Max(EvaporatedInitial, PheromoneFloor)

\* C11 amended: the deposit is q / (c + 0.0001)
C11_DepositGuarded ==
    FirstUpdateOneAnt =>
        \A e \in DOMAIN pheromones :
            pheromones[e] =
                IF OnPath(all_paths[1][1], e)
                THEN EvaporatedInitial + QOverCostPlusGuard(all_paths[1][2])
                ELSE Max(EvaporatedInitial, PheromoneFloor)

\* one ant failed at the dead end 4, the other arrived over 0-3-2; the edge 1-2
\* was not used
C11_Witness ==
    /\ FirstUpdateOneAnt /\ graph = "mesh"
    /\ all_paths[1][1] = <<0, 3, 2>>
    /\ pheromones[<<3, 0>>] > 1 * PhScale
    /\ pheromones[<<1, 2>>] = EvaporatedInitial

\* a record that reports a failure and nothing else
FailureRecord(m, errors) ==
    /\ DOMAIN m = {"valid", "error"}
    /\ m.valid = FALSE
    /\ m.error \in errors

\* C12: get_path_metrics answers None and the empty list with valid = false and
\* the no-path error, and a path of the graph whose minimum edge bandwidth is
\* below demand_bw with valid = false and the bandwidth error, each time with no
\* other field
C12_FailuresAsData ==
    metrics # NoMetrics =>
        /\ path \in {None, << >>} => FailureRecord(metrics, NoPathErrors)
        /\ (path # None /\ Len(path) >= 2
                /\ MinEdgeBandwidth(graph, path) < demand_bw)
               => FailureRecord(metrics, BandwidthErrors)

\* the path 0-1-2 of the mesh, whose edge 1-2 has bandwidth 4, asked with
\* demand 5
C12_Witness ==
    /\ metrics # NoMetrics /\ graph = "mesh"
    /\ path = <<0, 1, 2>> /\ demand_bw = 5
    /\ FailureRecord(metrics, BandwidthErrors)

\* C13: a train call stays within its budget and reports infeasibility: an
\* episode makes at most max_steps moves, an ant at most 2 * |nodes|, the loops
\* run their fixed number of rounds, and a call that produced no feasible path
\* returns with best_path = None
C13_TrainWithinBudget ==
    /\ pc = "q_while" => (steps <= MaxSteps /\ Len(path) - 1 <= MaxSteps)
    /\ pc = "a_walk" => (steps <= StepCap(graph) /\ Len(path) - 1 <= StepCap(graph))
    /\ episode <= Episodes /\ iteration <= Iterations /\ ant <= AntCount
    /\ (Trained /\ produced = {}) => best_path = None

\* train has just been called by run_multiple for one of its runs
RestartRunBegins == caller = "run_multiple" /\ pc = "q_for" /\ episode = 0

\* C14: each run of run_multiple begins in the learning state of a freshly
\* constructed router: every Q-value 0, best_path None, best_cost infinite and
\* epsilon the initial_epsilon the router was constructed with
C14_RunsStartFresh ==
    RestartRunBegins =>
        /\ Q = InitQ(graph)
        /\ best_path = None
        /\ best_cost = INF
        /\ epsilon = initial_epsilon

\* ACORouter.train has just been called
ACOTrainBegins == engine = "ACO" /\ pc = "a_iter" /\ iteration = 0

\* C15: at the start of every ACORouter.train call every pheromone value is the
\* initial 1.0
C15_PheromonesResetAtTrain ==
    ACOTrainBegins => \A e \in DOMAIN pheromones : pheromones[e] = 1 * PhScale

C17_PheromonesPositive ==
    engine = "ACO" =>
        /\ DOMAIN pheromones = DOMAIN InitPheromones(graph)
        /\ \A e \in DOMAIN pheromones :
               pheromones[e] > 0 /\ pheromones[e] >= PheromoneFloor

\* with evaporation 1.0 an update has left an unused edge at the floor and has
\* put a deposit on a used one
C17_Witness ==
    /\ engine = "ACO" /\ evaporation = 100 /\ pc = "a_iter" /\ iteration > 0
    /\ \E e \in DOMAIN pheromones : pheromones[e] = PheromoneFloor
    /\ \E e \in DOMAIN pheromones : pheromones[e] > PheromoneFloor

\* C18: in a train call on a router constructed with initial_epsilon >=
\* min_epsilon, epsilon never is below the floor min_epsilon, whatever the
\* number of episodes done
C18_EpsilonFloor ==
    (engine = "QL" /\ caller = "train" /\ initial_epsilon >= min_epsilon)
        => epsilon >= min_epsilon

\* the deposits of the successful ants of an iteration on the arc e
DepositsOn(e, paths) ==
    SumSeq([i \in DOMAIN paths |->
               IF OnPath(paths[i][1], e) THEN QOverCostPlusGuard(paths[i][2]) ELSE 0])

\* the last ant of the iteration is done
AntsDone == pc = "a_ant" /\ ant = AntCount

\* C19: the pheromone table changes only in the update after the last ant of an
\* iteration, one update per iteration; the update evaporates every value (with
\* the floor) and then adds the deposits of the successful ants; an ant that
\* returns without having reached dst leaves all_paths, best_path and best_cost
\* as they are
C19_UpdateOncePerIteration ==
    [][engine = "ACO" =>
          /\ pheromones' # pheromones => (AntsDone /\ iteration' = iteration + 1)
          /\ AntsDone =>
                 /\ iteration' = iteration + 1
                 /\ pheromones' =
                        [e \in DOMAIN pheromones |->
                            Max((pheromones[e] * (100 - evaporation)) \div 100,
                                PheromoneFloor)
                            + DepositsOn(e, all_paths)]
          /\ (pc = "a_walk" /\ pc' = "a_ant" /\ state # dst) =>
                 /\ all_paths' = all_paths
                 /\ best_path' = best_path /\ best_cost' = best_cost]_vars

\* the second update of a call, after an iteration in which one ant failed and
\* one arrived
C19_Witness ==
    /\ engine = "ACO" /\ pc = "a_iter" /\ iteration = 2
    /\ Len(all_paths) > 0 /\ Len(all_paths) < AntCount
    /\ \E e \in DOMAIN pheromones : pheromones[e] > DepositsOn(e, all_paths)
                                    /\ DepositsOn(e, all_paths) > 0

\* C20: the pheromone table of an ACORouter holds both directions of every edge
\* of the graph, with the same value
C20_PheromonesSymmetric ==
    engine = "ACO" =>
        \A u, v \in Nodes(graph) :
            IsEdge(graph, u, v) =>
                /\ <<u, v>> \in DOMAIN pheromones
                /\ <<v, u>> \in DOMAIN pheromones
                /\ pheromones[<<u, v>>] = pheromones[<<v, u>>]

\* an update has put a deposit on an edge an ant walked in one direction only,
\* while another edge has none
C20_Witness ==
    /\ engine = "ACO" /\ pc = "a_iter" /\ iteration > 0 /\ all_paths # << >>
    /\ \E i \in DOMAIN all_paths :
          LET p == all_paths[i][1]
          IN /\ Len(p) > 1
             /\ pheromones[<<p[2], p[1]>>] > 1 * PhScale
             /\ \A j \in DOMAIN all_paths : ArcCountForward(all_paths[j][1], <<p[2], p[1]>>) = 0
    /\ \E e \in DOMAIN pheromones : pheromones[e] < 1 * PhScale

\* the ant stands at a node other than dst with no valid neighbor
DeadEnd ==
    state # dst /\ ValidNeighbors(graph, state, visited, demand_bw) = << >>

\* C21: an ant under way has never used up its 2 * |nodes| steps, so an ant at
\* dst is returned as a path, and an ant returns None only at a dead end: a node
\* without an unvisited neighbor of bandwidth >= demand_bw
C21_CapNeverBites ==
    (engine = "ACO" /\ pc = "a_walk") =>
        /\ steps < StepCap(graph)
        /\ state = dst => AntArrived
        /\ AntFailed => DeadEnd

\* an ant of the mesh that went 0-3-1-4 and is stuck at the dead end 4 after
\* three steps
C21_Witness ==
    /\ engine = "ACO" /\ pc = "a_walk" /\ graph = "mesh"
    /\ path = <<0, 3, 1, 4>> /\ steps = 3
    /\ DeadEnd /\ AntFailed

====
